---- MODULE Spec2Model ----
(***************************************************************************)
(* ConRed: redaction of configured terms from the word, xml and markdown    *)
(* representations of a document, with per-representation counts that are   *)
(* cross-checked (src/src/conred.py, src/src/markdown_converter.py) and the *)
(* GUI that drives it over a batch (src/src/conred_gui.py).                 *)
(*                                                                          *)
(* A text is a sequence of characters; every character is a one-character   *)
(* string, except the named ones: "NBSP" (U+00A0), "NUL", "BEL", "BS"       *)
(* (U+0000, U+0007, U+0008), "FF", "CR", "VT" (U+000C, U+000D, U+000B),     *)
(* which a replacement template can produce, and the two literals           *)
(* "data:image/" and ";base64," which the texts of the model only hold      *)
(* whole.                                                                   *)
(***************************************************************************)
EXTENDS Integers, Sequences, FiniteSets, TLC

\* ------------------------------------------------------------------------
\* Characters, as Python's re sees them (str patterns, Unicode classes).

LowerCase ==
  <<"a", "b", "c", "d", "e", "f", "g", "h", "i", "j", "k", "l", "m",
    "n", "o", "p", "q", "r", "s", "t", "u", "v", "w", "x", "y", "z">>
UpperCase ==
  <<"A", "B", "C", "D", "E", "F", "G", "H", "I", "J", "K", "L", "M",
    "N", "O", "P", "Q", "R", "S", "T", "U", "V", "W", "X", "Y", "Z">>
Digits == {"0", "1", "2", "3", "4", "5", "6", "7", "8", "9"}
AsciiLetters == {LowerCase[i] : i \in 1..26} \cup {UpperCase[i] : i \in 1..26}

\* \w: letters, digits and the underscore.
WordChars == AsciiLetters \cup Digits \cup {"_"}

\* \s and str.isspace(): the whitespace of the model's alphabet.
SpaceChars == {" ", "\t", "\n", "NBSP", "FF", "CR", "VT"}

IsWord(c) == c \in WordChars

FoldMap ==
  [c \in {UpperCase[i] : i \in 1..26} |->
     LowerCase[CHOOSE i \in 1..26 : UpperCase[i] = c]]

\* Fold, had the patterns been compiled without re.IGNORECASE.
FoldExact(c) == c

\* re.IGNORECASE compares characters with their case folded.
Fold(c) == IF c \in DOMAIN FoldMap THEN FoldMap[c] ELSE c

\* \b at offset p (between text[p] and text[p+1]): exactly one side is \w.
Boundary(text, p) ==
  LET before == p >= 1 /\ IsWord(text[p])
      after == p < Len(text) /\ IsWord(text[p + 1])
  IN before # after

\* ------------------------------------------------------------------------
\* Regular expressions: a sequence of items, matched with backtracking in
\* the order of sre (greedy: longest first; lazy: shortest first).

Lit(c) == [k |-> "lit", q |-> "1", c |-> c, cs |-> {}, s |-> <<>>]
Dot(q) == [k |-> "dot", q |-> q, c |-> "", cs |-> {}, s |-> <<>>]
In(cs, q) == [k |-> "in", q |-> q, c |-> "", cs |-> cs, s |-> <<>>]
NotIn(cs, q) == [k |-> "notin", q |-> q, c |-> "", cs |-> cs, s |-> <<>>]
WordB == [k |-> "wb", q |-> "1", c |-> "", cs |-> {}, s |-> <<>>]
Behind(s) == [k |-> "behind", q |-> "1", c |-> "", cs |-> {}, s |-> s]
Ahead(s) == [k |-> "ahead", q |-> "1", c |-> "", cs |-> {}, s |-> s]

\* The literal characters of s, one item each.
Lits(s) == [i \in 1..Len(s) |-> Lit(s[i])]

\* x+ is x followed by x*.
Plus(it) == <<[it EXCEPT !.q = "1"], [it EXCEPT !.q = "*"]>>

\* Whether item it consumes character c; ic is re.IGNORECASE.
CharOK(it, ic, c) ==
  CASE it.k = "lit" -> IF ic THEN Fold(c) = Fold(it.c) ELSE c = it.c
    [] it.k = "dot" -> c # "\n"
    [] it.k = "in" -> c \in it.cs
    [] it.k = "notin" -> c \notin it.cs
    [] OTHER -> FALSE

\* The literal s stands in text right after offset p.
LitAt(text, p, s) ==
  /\ p + Len(s) <= Len(text)
  /\ \A i \in 1..Len(s) : text[p + i] = s[i]

RECURSIVE MatchFrom(_, _, _, _, _)
\* The end offset of the first match of items k.. of re starting at offset
\* p of text, or -1.
MatchFrom(re, ic, k, text, p) ==
  IF k > Len(re) THEN p
  ELSE
    LET it == re[k]
        ok == p < Len(text) /\ CharOK(it, ic, text[p + 1])
    IN CASE it.k = "wb" ->
              IF Boundary(text, p) THEN MatchFrom(re, ic, k + 1, text, p) ELSE -1
         [] it.k = "behind" ->
              IF p >= Len(it.s) /\ LitAt(text, p - Len(it.s), it.s)
              THEN MatchFrom(re, ic, k + 1, text, p) ELSE -1
         [] it.k = "ahead" ->
              IF LitAt(text, p, it.s)
              THEN MatchFrom(re, ic, k + 1, text, p) ELSE -1
         [] OTHER ->
              CASE it.q = "1" ->
                     IF ok THEN MatchFrom(re, ic, k + 1, text, p + 1) ELSE -1
                [] it.q = "*" ->
                     IF ok
                     THEN LET r == MatchFrom(re, ic, k, text, p + 1)
                          IN IF r # -1 THEN r
                             ELSE MatchFrom(re, ic, k + 1, text, p)
                     ELSE MatchFrom(re, ic, k + 1, text, p)
                [] OTHER ->  \* "*?"
                     LET r == MatchFrom(re, ic, k + 1, text, p)
                     IN IF r # -1 THEN r
                        ELSE IF ok THEN MatchFrom(re, ic, k, text, p + 1)
                        ELSE -1

RECURSIVE Scan(_, _, _, _)
\* The matches <<start, end>> (offsets) that findall and sub both visit,
\* left to right and not overlapping, from offset p on.  After an empty match
\* the search goes on one character further; after a non-empty one, at its
\* end, where an empty match is allowed again (Python 3.7 and later).
Scan(re, ic, text, p) ==
  IF p > Len(text) THEN <<>>
  ELSE LET e == MatchFrom(re, ic, 1, text, p)
       IN IF e = -1 THEN Scan(re, ic, text, p + 1)
          ELSE IF e = p THEN <<<<p, p>>>> \o Scan(re, ic, text, p + 1)
          ELSE <<<<p, e>>>> \o Scan(re, ic, text, e)

\* regex.findall(text), as the spans matched.
FindAll(re, ic, text) == Scan(re, ic, text, 0)

RECURSIVE SubFrom(_, _, _, _, _)
\* text from offset p on, with the spans i.. each replaced by ins[i].
SubFrom(text, spans, ins, i, p) ==
  IF i > Len(spans) THEN SubSeq(text, p + 1, Len(text))
  ELSE SubSeq(text, p + 1, spans[i][1]) \o ins[i]
       \o SubFrom(text, spans, ins, i + 1, spans[i][2])

\* regex.sub: text with every span replaced by its insertion.
Sub(text, spans, ins) == SubFrom(text, spans, ins, 1, 0)

\* ------------------------------------------------------------------------
\* The replacement template of regex.sub(replacement, text).  A replacement
\* without a backslash is inserted as it is; one with a backslash is parsed
\* (sre_parse.parse_template) for a pattern that has no groups.

\* The escapes of a template that stand for one character (sre_parse.ESCAPES);
\* "FF", "CR" and "VT" name U+000C, U+000D and U+000B.
TemplateEscapes == {"a", "b", "f", "n", "r", "t", "v", "\\"}
EscapeChar(c) ==
  CASE c = "a" -> "BEL"
    [] c = "b" -> "BS"
    [] c = "f" -> "FF"
    [] c = "n" -> "\n"
    [] c = "r" -> "CR"
    [] c = "t" -> "\t"
    [] c = "v" -> "VT"
    [] OTHER -> "\\"

\* The offset of the first ">" of r after offset p, or 0.
CloseOf(r, p) ==
  IF \E j \in (p + 1)..Len(r) : r[j] = ">"
  THEN CHOOSE j \in (p + 1)..Len(r) :
         r[j] = ">" /\ \A h \in (p + 1)..(j - 1) : r[h] # ">"
  ELSE 0

RECURSIVE Template(_, _)
\* The parts of replacement r from index i on: characters and "\\g<0>" (the
\* whole match); <<"error">> once the parse raises re.error or IndexError.
\* A part is <<"chr", c>> or <<"match">>.
Template(r, i) ==
  IF i > Len(r) THEN <<>>
  ELSE IF r[i] # "\\" THEN <<<<"chr", r[i]>>>> \o Template(r, i + 1)
  ELSE IF i = Len(r) THEN <<<<"error">>>>                \* bad escape (end)
  ELSE LET c == r[i + 1] IN
    CASE c = "g" ->
           LET close == CloseOf(r, i + 2)
           IN IF i + 2 > Len(r) \/ r[i + 2] # "<" THEN <<<<"error">>>>
              ELSE IF close = 0 \/ close = i + 3 THEN <<<<"error">>>>
              ELSE IF \A j \in (i + 3)..(close - 1) : r[j] = "0"
                   THEN <<<<"match">>>> \o Template(r, close + 1)
              ELSE <<<<"error">>>>          \* no such group
      [] c = "0" ->
           LET n == IF i + 2 <= Len(r) /\ r[i + 2] = "0"
                    THEN IF i + 3 <= Len(r) /\ r[i + 3] = "0" THEN 2 ELSE 1
                    ELSE 0
           IN <<<<"chr", "NUL">>>> \o Template(r, i + 2 + n)
      [] c \in Digits -> <<<<"error">>>>      \* \1..: invalid group reference
      [] c \in TemplateEscapes ->
           <<<<"chr", EscapeChar(c)>>>> \o Template(r, i + 2)
      [] c \in AsciiLetters -> <<<<"error">>>>           \* bad escape \c
      [] OTHER -> <<<<"chr", "\\">>, <<"chr", c>>>> \o Template(r, i + 2)

\* Whether regex.sub(r, ...) raises on its template.
TemplateError(r) ==
  LET t == Template(r, 1) IN \E i \in 1..Len(t) : t[i][1] = "error"

RECURSIVE ExpandFrom(_, _, _)
ExpandFrom(t, i, m) ==
  IF i > Len(t) THEN <<>>
  ELSE (IF t[i][1] = "match" THEN m ELSE <<t[i][2]>>) \o ExpandFrom(t, i + 1, m)

\* What sub inserts for a match of text m under replacement r (no error).
Expand(r, m) == ExpandFrom(Template(r, 1), 1, m)

\* ------------------------------------------------------------------------
\* ConRed.replace_text / MarkdownConverter.replace_text: the same code.

RECURSIVE EscapeDotDash(_, _)
\* re.escape(original).replace('.', r'\.').replace('-', r'\-') as items:
\* re.escape has already written "\." and "\-", so the replaces leave an
\* escaped backslash followed by a bare "." (any character but a newline) or
\* by a literal "-".
EscapeDotDash(term, i) ==
  IF i > Len(term) THEN <<>>
  ELSE (CASE term[i] = "." -> <<Lit("\\"), Dot("1")>>
          [] term[i] = "-" -> <<Lit("\\"), Lit("-")>>
          [] OTHER -> <<Lit(term[i])>>) \o EscapeDotDash(term, i + 1)

RECURSIVE EscapeHtml(_, _)
\* re.escape(original) with '&', '<', '>' replaced by their entities.
EscapeHtml(term, i) ==
  IF i > Len(term) THEN <<>>
  ELSE (CASE term[i] = "&" -> Lits(<<"&", "a", "m", "p", ";">>)
          [] term[i] = "<" -> Lits(<<"&", "l", "t", ";">>)
          [] term[i] = ">" -> Lits(<<"&", "g", "t", ";">>)
          [] OTHER -> <<Lit(term[i])>>) \o EscapeHtml(term, i + 1)

Ws == In(SpaceChars, "*")

NumPatterns == 8

\* The patterns list built for one term, in its order.
Patterns(term) ==
  << <<WordB>> \o Lits(term) \o <<WordB>>,
     <<WordB>> \o EscapeDotDash(term, 1) \o <<WordB>>,
     <<Behind(<<"_", "_">>), Ws>> \o Lits(term) \o <<Ws, Ahead(<<"_", "_">>)>>,
     <<Behind(<<"*", "*">>), Ws>> \o Lits(term) \o <<Ws, Ahead(<<"*", "*">>)>>,
     <<Behind(<<"-", " ">>)>> \o Lits(term),
     <<Behind(<<"*", " ">>)>> \o Lits(term),
     <<Behind(<<"[">>)>> \o Lits(term) \o <<Ahead(<<"]">>)>>,
     <<WordB>> \o EscapeHtml(term, 1) \o <<WordB>> >>

\* The spans that regex.findall(modified_text) and regex.sub(replacement,
\* modified_text) both visit, for pattern j of term.
Matches(term, j, text) == FindAll(Patterns(term)[j], TRUE, text)

\* len(regex.findall(modified_text))
MatchCount(term, j, text) == Len(Matches(term, j, text))

\* Insertions, had sub been handed the matched text back instead of the
\* replacement.
InsertionsOfMatch(text, spans, replacement) ==
  [i \in 1..Len(spans) |-> SubSeq(text, spans[i][1] + 1, spans[i][2])]

\* What sub inserts for each span of text.
Insertions(text, spans, replacement) ==
  [i \in 1..Len(spans) |->
     Expand(replacement, SubSeq(text, spans[i][1] + 1, spans[i][2]))]

\* counts[original] += n, on a Counter (a missing key counts 0).
CounterAdd(counts, term, n) ==
  IF term \in DOMAIN counts
  THEN [counts EXCEPT ![term] = @ + n]
  ELSE counts @@ (term :> n)

\* The body of the inner loop for the matches spans: the count goes up by
\* their number and each is replaced.  st = [text, counts, raised, found];
\* found lists len(matches) of every turn so far.
Substitute(st, term, replacement, spans) ==
  [text |-> Sub(st.text, spans, Insertions(st.text, spans, replacement)),
   counts |-> CounterAdd(st.counts, term, Len(spans)),
   raised |-> FALSE,
   found |-> Append(st.found, Len(spans))]

\* One turn of the inner loop: pattern j of rule <<term, replacement>> on the
\* running state st.  regex.sub raises on a replacement it cannot parse.
PatternStep(st, term, replacement, j) ==
  IF st.raised THEN st
  ELSE IF TemplateError(replacement)
  THEN [st EXCEPT !.raised = TRUE]
  ELSE Substitute(st, term, replacement, Matches(term, j, st.text))

RECURSIVE ReplaceFrom(_, _, _)
\* The two loops from step n on; step n is pattern ((n-1) % 8) + 1 of rule
\* ((n-1) \div 8) + 1.  rules is the dict as its items in insertion order.
ReplaceFrom(rules, st, n) ==
  IF n > NumPatterns * Len(rules) THEN st
  ELSE LET rule == rules[((n - 1) \div NumPatterns) + 1]
           j == ((n - 1) % NumPatterns) + 1
       IN ReplaceFrom(rules, PatternStep(st, rule[1], rule[2], j), n + 1)

\* RuleOf, had the rules been taken from the last to the first.
RuleOfLastFirst(rules, n) == rules[Len(rules) - ((n - 1) \div 8)]

\* The rule and the pattern index of turn n of the loops.
RuleOf(rules, n) == rules[((n - 1) \div NumPatterns) + 1]
PatternOf(n) == ((n - 1) % NumPatterns) + 1

\* StartState, had modified_text started out empty.
StartStateEmpty(text) ==
  [text |-> <<>>, counts |-> <<>>, raised |-> FALSE, found |-> <<>>]

\* counts = Counter(); modified_text = text
StartState(text) ==
  [text |-> text, counts |-> <<>>, raised |-> FALSE, found |-> <<>>]

\* replace_text(text) under replacement_dict = rules.
ReplaceText(rules, text) == ReplaceFrom(rules, StartState(text), 1)

\* ------------------------------------------------------------------------
\* MarkdownConverter.clean_markdown.

\* re.sub(pattern, repl, content) for a repl that holds no backslash.
ReSub(re, repl, text) ==
  LET spans == FindAll(re, FALSE, text)
  IN Sub(text, spans, [i \in 1..Len(spans) |-> repl])

\* r'!\[.*?\]\(data:image\/[^;]+;base64,[^)]+\)'
Base64ImageRe ==
  <<Lit("!"), Lit("["), Dot("*?"), Lit("]"), Lit("("), Lit("data:image/")>>
  \o Plus(NotIn({";", ";base64,"}, "1")) \o <<Lit(";base64,")>>
  \o Plus(NotIn({")"}, "1")) \o <<Lit(")")>>

\* r'\n\s*\n\s*\n'
BlankLinesRe == <<Lit("\n"), Ws, Lit("\n"), Ws, Lit("\n")>>

\* r'data:image\/[^;]+;base64,[^\s]+'
Base64DataRe ==
  <<Lit("data:image/")>> \o Plus(NotIn({";", ";base64,"}, "1"))
  \o <<Lit(";base64,")>> \o Plus(NotIn(SpaceChars, "1"))

\* r'!\[.*?\]\(.*?\)'
ImageRe ==
  <<Lit("!"), Lit("["), Dot("*?"), Lit("]"), Lit("("), Dot("*?"), Lit(")")>>

\* r'\*\*\s*\*\*' and r'__\s*__'
EmptyBoldRe == <<Lit("*"), Lit("*"), Ws, Lit("*"), Lit("*")>>
EmptyUnderlineRe == <<Lit("_"), Lit("_"), Ws, Lit("_"), Lit("_")>>

\* content.replace('\xa0', ' ')
ReplaceNbsp(text) ==
  [i \in 1..Len(text) |-> IF text[i] = "NBSP" THEN " " ELSE text[i]]

RECURSIVE RStrip(_)
\* str.rstrip()
RStrip(text) ==
  IF text # <<>> /\ text[Len(text)] \in SpaceChars
  THEN RStrip(SubSeq(text, 1, Len(text) - 1))
  ELSE text

RECURSIVE LStrip(_)
LStrip(text) ==
  IF text # <<>> /\ text[1] \in SpaceChars THEN LStrip(Tail(text)) ELSE text

\* str.strip()
Strip(text) == LStrip(RStrip(text))

\* The index of the first "\n" of text, or 0.
FirstNewline(text) ==
  IF \E i \in 1..Len(text) : text[i] = "\n"
  THEN CHOOSE i \in 1..Len(text) :
         text[i] = "\n" /\ \A h \in 1..(i - 1) : text[h] # "\n"
  ELSE 0

RECURSIVE SplitLines(_)
\* str.splitlines(): the lines without their line ends; a final line end
\* opens no further line.  "\n" is the only line end the markdown of the
\* model holds.
SplitLines(text) ==
  IF text = <<>> THEN <<>>
  ELSE LET n == FirstNewline(text)
       IN IF n = 0 THEN <<text>>
          ELSE <<SubSeq(text, 1, n - 1)>> \o SplitLines(SubSeq(text, n + 1, Len(text)))

RECURSIVE JoinLines(_)
\* '\n'.join(lines)
JoinLines(lines) ==
  IF lines = <<>> THEN <<>>
  ELSE IF Len(lines) = 1 THEN lines[1]
  ELSE lines[1] \o <<"\n">> \o JoinLines(Tail(lines))

\* '\n'.join(line.rstrip() for line in content.splitlines())
RStripLines(text) ==
  LET lines == SplitLines(text)
  IN JoinLines([i \in 1..Len(lines) |-> RStrip(lines[i])])

\* clean_markdown(content), statement by statement.
CleanMarkdown(content) ==
  LET c1 == ReSub(Base64ImageRe, <<>>, content)
      c2 == ReSub(BlankLinesRe, <<"\n", "\n">>, c1)
      c3 == ReSub(Base64DataRe, <<>>, c2)
      c4 == ReplaceNbsp(c3)
      c5 == ReSub(ImageRe, <<>>, c4)
      c6 == ReSub(EmptyBoldRe, <<>>, c5)
      c7 == ReSub(EmptyUnderlineRe, <<>>, c6)
      c8 == RStripLines(c7)
  IN Strip(c8)

\* ------------------------------------------------------------------------
\* ConRed.verify_counts.  A Counter is a function from its keys to numbers;
\* replacement_counts is [word, xml, markdown].

\* counter.get(word, 0)
Get(counter, word) == IF word \in DOMAIN counter THEN counter[word] ELSE 0

\* set().union(word keys, xml keys, markdown keys)
AllWords(rc) == DOMAIN rc.word \cup DOMAIN rc.xml \cup DOMAIN rc.markdown

\* IsMismatch, had the markdown count been left out of the comparison.
IsMismatchWordXmlOnly(rc, word) == Get(rc.word, word) # Get(rc.xml, word)

\* The test of line 159.
IsMismatch(rc, word) ==
  LET word_count == Get(rc.word, word)
      xml_count == Get(rc.xml, word)
      md_count == Get(rc.markdown, word)
  IN word_count # xml_count \/ word_count # md_count \/ xml_count # md_count

\* The entry appended for word.
MismatchEntry(rc, word) ==
  [word |-> word,
   word_doc_count |-> Get(rc.word, word),
   xml_doc_count |-> Get(rc.xml, word),
   markdown_doc_count |-> Get(rc.markdown, word)]

RECURSIVE VerifyFrom(_, _, _)
VerifyFrom(rc, order, i) ==
  IF i > Len(order) THEN <<>>
  ELSE (IF IsMismatch(rc, order[i]) THEN <<MismatchEntry(rc, order[i])>> ELSE <<>>)
       \o VerifyFrom(rc, order, i + 1)

\* verify_counts(), the set all_words being iterated in the order given.
VerifyCounts(rc, order) == VerifyFrom(rc, order, 1)

\* The orders a set can be iterated in.
Orders(S) ==
  {o \in [1..Cardinality(S) -> S] : \A i, j \in 1..Cardinality(S) : i # j => o[i] # o[j]}

\* ------------------------------------------------------------------------
\* State.

\* A value of Python as json.load returns it: its type, and its items in
\* order (the pairs of a dict; the elements of a list, each a pair of strings
\* or the empty list).
Json(type, items) == [type |-> type, items |-> items]
Dict(items) == Json("dict", items)

\* The value of a text variable that holds no text yet.
NoText == <<"(none)">>

VARIABLES
  \* ConRed
  replacement_dict,    \* self.replacement_dict, a value as json.load gives it
  \* one replace_text call: its argument, its locals, its place
  text,
  modified_text,
  counts,
  found,               \* len(matches) of every turn of the loops so far
  rt_pc,               \* "ready", "loop", "returned", "raised", "rerun"
  result,              \* the tuple returned
  second,              \* replace_text run again on result's text
  \* what the call's substitutions did, for the statements about them
  inserted,            \* per character of modified_text: written by a sub
  rematched,           \* a match has covered a character written by a sub
  insertions,          \* the texts the latest turn's sub wrote
  \* ConRed, the counts and their check
  replacement_counts,  \* self.replacement_counts: [word, xml, markdown]
  mismatches,          \* what verify_counts returned
  vc_pc,               \* "ready", "returned"
  \* MarkdownConverter.clean_markdown: its argument and what it returned
  content,
  cleaned,
  cleaned_again,       \* clean_markdown of what clean_markdown returned
  cm_pc,               \* "ready", "cleaned", "recleaned"
  \* ConRedGUI
  replacements,        \* self.replacements
  document_pairs,      \* self.document_pairs, each pair as the document it names
  status_label,        \* the text of the status bar
  dialog,              \* the message box that is open, "none" without one
  \* process_files: its place and its locals
  pf_pc,               \* "idle", "loop", "pair", "showerror", "showinfo"
  cur,                 \* the place of the loop in document_pairs
  processed,
  \* MarkdownConverter
  md_replacement_counts,  \* self.markdown_converter.replacement_counts
  \* process_documents: its place and its locals
  pd_pc,               \* "none", "word", "xml", "convert", "markdown", "save",
                       \* "verify", "return"
  modified_doc,        \* the texts of the runs of the processed document
  modified_xml,
  markdown_content,
  modified_markdown,
  results,             \* what process_documents returned
  written,             \* the output files written since process_files began
  \* ConRed.load_config
  lc_pc                \* "ready", "returned", "raised"

rtVars ==
  <<replacement_dict, text, modified_text, counts, found, rt_pc, result,
    second, inserted, rematched, insertions>>

vcVars == <<replacement_counts, mismatches, vc_pc>>

cmVars == <<content, cleaned, cleaned_again, cm_pc>>

\* The GUI and its process_files.
guiVars ==
  <<replacements, document_pairs, status_label, dialog, pf_pc, cur, processed>>

\* The processor of process_files and its process_documents.
pdVars ==
  <<replacement_dict, replacement_counts, md_replacement_counts, mismatches,
    pd_pc, modified_doc, modified_xml, markdown_content, modified_markdown,
    results, written>>

\* The variables of single calls, which the GUI leaves alone.
callVars ==
  <<text, modified_text, counts, found, rt_pc, result, second, inserted,
    rematched, insertions, vc_pc, cmVars, lc_pc>>

\* What the single calls leave alone.
batchVars ==
  <<guiVars, md_replacement_counts, pd_pc, modified_doc, modified_xml,
    markdown_content, modified_markdown, results, written, lc_pc>>

vars == <<rtVars, vcVars, cmVars, batchVars>>

\* ------------------------------------------------------------------------
\* The inputs of the replace_text runs.

RECURSIVE SeqsUpTo(_, _)
\* All sequences over S of length at most n.
SeqsUpTo(S, n) ==
  IF n = 0 THEN {<<>>}
  ELSE LET shorter == SeqsUpTo(S, n - 1)
       IN shorter \cup {Append(t, c) : t \in shorter, c \in S}

MaxTextLen == 3
MaxRules == 2

TextAlphabet == {"a", "A", "b", " ", "-"}
Texts == SeqsUpTo(TextAlphabet, MaxTextLen)

Terms == {<<"a">>, <<"a", "b">>}
Replacements == {<<"b">>, <<".">>}
Rules == {<<t, r>> : t \in Terms, r \in Replacements}

\* dicts: no key twice.
IsDict(rules) == \A i, j \in 1..Len(rules) : i # j => rules[i][1] # rules[j][1]
RuleSets == {rs \in SeqsUpTo(Rules, MaxRules) : IsDict(rs)}

\* Rule sets and texts with the characters the generated ones leave out:
\* markdown emphasis, list markers and link labels, HTML entities, escaped
\* "." and "-", replacements with a backslash, a swap of two terms.
ScenarioInputs ==
  { <<<< <<<<"a">>, <<"b">>>>, <<<<"b">>, <<"a">>>> >>, <<"a", " ", "b">>>>,
    <<<< <<<<"a">>, <<"\\", "g", "<", "0", ">">>>> >>, <<"-", " ", "A", "b">>>>,
    <<<< <<<<"a">>, <<"\\", "\\">>>> >>, <<"a">>>>,
    <<<< <<<<"a">>, <<"x", "\\">>>> >>, <<"b">>>>,
    <<<< <<<<"a">>, <<"a", " ", "a">>>> >>, <<"a">>>>,
    <<<< <<<<"a">>, <<"x">>>> >>, <<"*", "*", "a", "*", "*">>>>,
    <<<< <<<<"a">>, <<"x">>>> >>, <<"_", "_", " ", "a", "_", "_">>>>,
    <<<< <<<<"a">>, <<".">>>> >>, <<"-", " ", "a", "a">>>>,
    <<<< <<<<"a">>, <<"x">>>> >>, <<"*", " ", "a", "b">>>>,
    <<<< <<<<"a">>, <<"x">>>> >>, <<"[", "a", "]">>>>,
    <<<< <<<<"a", "&", "b">>, <<"x">>>> >>,
       <<"a", "&", "a", "m", "p", ";", "b", " ", "a", "&", "b">>>>,
    <<<< <<<<"a", "-", "b">>, <<"x">>>> >>, <<"a", "\\", "-", "b">>>>,
    <<<< <<<<"a", ".", "b">>, <<"x">>>> >>, <<"a", "\\", ".", "b">>>>,
    <<<< <<<<"a", " ", "a">>, <<"a">>>> >>, <<"a", " ", "a", " ", "a">>>>,
    <<<<>>, <<"*", "*", "a", "*", "*">>>> }

\* The scenario of one rule, Acme -> Vendor1, on a plain sentence and on a
\* markdown one.
AcmeRules == << <<<<"A", "c", "m", "e">>, <<"V", "e", "n", "d", "o", "r", "1">>>> >>
AcmeNativeSpan ==
  <<"A", "c", "m", "e", " ", "s", "u", "p", "p", "o", "r", "t",
    "s", " ", "a", "c", "m", "e", " ", "a", "n", "d", " ", "A",
    "C", "M", "E", ".">>
AcmeMarkdownSpan ==
  <<"W", "e", " ", "u", "s", "e", " ", "*", "*", "A", "c", "m",
    "e", "*", "*", " ", "d", "a", "i", "l", "y", ".">>
AcmeInputs == {<<AcmeRules, AcmeNativeSpan>>, <<AcmeRules, AcmeMarkdownSpan>>}

\* Two rules that both match one occurrence of the text, in either order:
\* a term that is the start of another, and two terms that differ in case.
OverlapInputs ==
  { <<<< <<<<"a", " ", "b">>, <<"x">>>>, <<<<"a">>, <<".">>>> >>,
      <<"a", " ", "b", " ", "a">>>>,
    <<<< <<<<"a">>, <<".">>>>, <<<<"a", " ", "b">>, <<"x">>>> >>,
      <<"a", " ", "b", " ", "a">>>>,
    <<<< <<<<"a">>, <<"x">>>>, <<<<"A">>, <<".">>>> >>, <<"a", " ", "A">>>>,
    <<<< <<<<"A">>, <<".">>>>, <<<<"a">>, <<"x">>>> >>, <<"a", " ", "A">>>> }

EngineInputs ==
  {<<rs, t>> : rs \in RuleSets, t \in Texts}
    \cup ScenarioInputs \cup AcmeInputs \cup OverlapInputs

\* ------------------------------------------------------------------------
\* replace_text, turn by turn.

NoResult == [text |-> NoText, counts |-> <<>>]
NoSecond == [text |-> NoText, counts |-> <<>>, raised |-> FALSE, found |-> <<>>]

\* ConRed.__init__ (line 17), and no verify_counts call under way.
VerifyIdle ==
  /\ replacement_counts = [word |-> <<>>, xml |-> <<>>, markdown |-> <<>>]
  /\ mismatches = <<>>
  /\ vc_pc = "ready"

NoResults == [returned |-> FALSE, mismatches |-> <<>>, word_counts |-> <<>>,
              xml_counts |-> <<>>, markdown_counts |-> <<>>]

\* ConRed.__init__: the counts of a new instance.
NewCounts == [word |-> <<>>, xml |-> <<>>, markdown |-> <<>>]

\* No process_documents call under way.
PdIdle ==
  /\ pd_pc = "none"
  /\ modified_doc = <<>>
  /\ modified_xml = NoText
  /\ markdown_content = NoText
  /\ modified_markdown = NoText

\* The GUI before anything was done with it, over an empty rule set.
GuiIdle ==
  /\ replacements = Dict(<<>>)
  /\ document_pairs = <<>>
  /\ status_label = "Ready"
  /\ dialog = "none"
  /\ pf_pc = "idle"
  /\ cur = 0
  /\ processed = 0
  /\ md_replacement_counts = <<>>
  /\ PdIdle
  /\ results = NoResults
  /\ written = <<>>
  /\ lc_pc = "ready"

\* No clean_markdown call under way.
CleanIdle ==
  /\ content = NoText
  /\ cleaned = NoText
  /\ cleaned_again = NoText
  /\ cm_pc = "ready"

InitReplace ==
  /\ VerifyIdle
  /\ CleanIdle
  /\ GuiIdle
  /\ \E in \in EngineInputs :
       /\ replacement_dict = Dict(in[1])
       /\ text = in[2]
  /\ modified_text = NoText
  /\ counts = <<>>
  /\ found = <<>>
  /\ rt_pc = "ready"
  /\ result = NoResult
  /\ second = NoSecond
  /\ inserted = <<>>
  /\ rematched = FALSE
  /\ insertions = {}

\* counts = Counter(); modified_text = text
RtEnter ==
  /\ rt_pc = "ready"
  /\ rt_pc' = "loop"
  /\ modified_text' = StartState(text).text
  /\ counts' = StartState(text).counts
  /\ found' = StartState(text).found
  /\ inserted' = [i \in 1..Len(text) |-> FALSE]
  /\ UNCHANGED <<replacement_dict, text, result, second, rematched, insertions>>
  /\ UNCHANGED <<vcVars, cmVars, batchVars>>

\* One turn of "for pattern in patterns", of the rule the outer loop is at.
RtPattern ==
  /\ rt_pc = "loop"
  /\ Len(found) < NumPatterns * Len(replacement_dict.items)
  /\ LET n == Len(found) + 1
         rule == RuleOf(replacement_dict.items, n)
         st == [text |-> modified_text, counts |-> counts,
                raised |-> FALSE, found |-> found]
         next == PatternStep(st, rule[1], rule[2], PatternOf(n))
         spans == Matches(rule[1], PatternOf(n), modified_text)
         ins == Insertions(modified_text, spans, rule[2])
     IN IF next.raised
        THEN /\ rt_pc' = "raised"
             /\ UNCHANGED <<modified_text, counts, found, inserted, rematched,
                            insertions>>
        ELSE /\ rt_pc' = "loop"
             /\ modified_text' = next.text
             /\ counts' = next.counts
             /\ found' = next.found
             /\ inserted' =
                  Sub(inserted, spans,
                      [i \in 1..Len(spans) |-> [h \in 1..Len(ins[i]) |-> TRUE]])
             /\ rematched' =
                  (rematched \/ \E i \in 1..Len(spans) :
                     \E h \in (spans[i][1] + 1)..spans[i][2] : inserted[h])
             /\ insertions' = {ins[i] : i \in 1..Len(spans)}
  /\ UNCHANGED <<replacement_dict, text, result, second>>
  /\ UNCHANGED <<vcVars, cmVars, batchVars>>

\* return modified_text, counts
RtReturn ==
  /\ rt_pc = "loop"
  /\ Len(found) = NumPatterns * Len(replacement_dict.items)
  /\ rt_pc' = "returned"
  /\ result' = [text |-> modified_text, counts |-> counts]
  /\ UNCHANGED <<replacement_dict, text, modified_text, counts, found, second,
                 inserted, rematched, insertions>>
  /\ UNCHANGED <<vcVars, cmVars, batchVars>>

\* replace_text called again, on the text the first call returned.
RtRerun ==
  /\ rt_pc = "returned"
  /\ rt_pc' = "rerun"
  /\ second' = ReplaceText(replacement_dict.items, result.text)
  /\ UNCHANGED <<replacement_dict, text, modified_text, counts, found, result,
                 inserted, rematched, insertions>>
  /\ UNCHANGED <<vcVars, cmVars, batchVars>>

NextReplace == RtEnter \/ RtPattern \/ RtReturn \/ RtRerun

SpecReplace == InitReplace /\ [][NextReplace]_vars

\* ------------------------------------------------------------------------
\* verify_counts on the counts of three representations.

MaxCount == 2
CountedWords == {<<"a">>, <<"b">>}

\* The Counters over some of the words, with counts up to MaxCount.
Counters ==
  UNION {[ws -> 0..MaxCount] : ws \in SUBSET CountedWords}

\* ConRed as it is once no replace_text call is under way.
ReplaceIdle ==
  /\ replacement_dict = Dict(<<>>)
  /\ text = NoText
  /\ modified_text = NoText
  /\ counts = <<>>
  /\ found = <<>>
  /\ rt_pc = "ready"
  /\ result = NoResult
  /\ second = NoSecond
  /\ inserted = <<>>
  /\ rematched = FALSE
  /\ insertions = {}

InitVerify ==
  /\ ReplaceIdle
  /\ CleanIdle
  /\ GuiIdle
  /\ replacement_counts \in [word : Counters, xml : Counters, markdown : Counters]
  /\ mismatches = <<>>
  /\ vc_pc = "ready"

\* mismatches = self.verify_counts()
Verify ==
  /\ vc_pc = "ready"
  /\ \E order \in Orders(AllWords(replacement_counts)) :
       mismatches' = VerifyCounts(replacement_counts, order)
  /\ vc_pc' = "returned"
  /\ UNCHANGED <<replacement_counts, rtVars, cmVars, batchVars>>

NextVerify == Verify

SpecVerify == InitVerify /\ [][NextVerify]_vars

\* ------------------------------------------------------------------------
\* clean_markdown on converted markdown, and on its own output.

MaxFragments == 4

\* What the markdown of the model is made of: a letter, line ends and
\* spaces, emphasis markers, an image reference, an image with an inlined
\* payload, a bare payload.
Fragments ==
  { <<"a">>, <<"\n">>, <<" ">>, <<"NBSP">>, <<"*", "*">>, <<"_", "_">>,
    <<"!", "[", "a", "]", "(", "b", ")">>,
    <<"!", "[", "]", "(", "data:image/", "a", ";base64,", "a", ")">>,
    <<"data:image/", "a", ";base64,", "a">> }

RECURSIVE Concat(_)
Concat(parts) == IF parts = <<>> THEN <<>> ELSE Head(parts) \o Concat(Tail(parts))

\* Paragraphs two blank lines apart, and paragraphs with nothing but an
\* image reference, an inlined image or an empty emphasis between them.
BlankRunInputs ==
  { <<"a", "\n", "\n", "\n", "a">>,
    <<"a", "\n", "\n", "\n", "\n", "\n", "a">>,
    <<"a", "\n", " ", "\n", "NBSP", "\n", "\n", "a">>,
    <<"a", "\n", "\n", "!", "[", "a", "]", "(", "b", ")", "\n", "\n", "a">>,
    <<"a", "\n", "\n", "!", "[", "]", "(", "data:image/", "a", ";base64,", "a", ")",
      "\n", "\n", "a">>,
    <<"a", "\n", "\n", "*", "*", " ", "*", "*", "\n", "\n", "a">>,
    <<"a", "\n", "\n", "_", "_", "_", "_", "\n", "\n", "a">> }

MarkdownInputs ==
  {Concat(parts) : parts \in SeqsUpTo(Fragments, MaxFragments)} \cup BlankRunInputs

InitClean ==
  /\ ReplaceIdle
  /\ VerifyIdle
  /\ GuiIdle
  /\ content \in MarkdownInputs
  /\ cleaned = NoText
  /\ cleaned_again = NoText
  /\ cm_pc = "ready"

\* cleaned_content = self.clean_markdown(markdown_content)
Clean ==
  /\ cm_pc = "ready"
  /\ cleaned' = CleanMarkdown(content)
  /\ cm_pc' = "cleaned"
  /\ UNCHANGED <<content, cleaned_again, rtVars, vcVars, batchVars>>

\* clean_markdown called on what it returned.
CleanAgain ==
  /\ cm_pc = "cleaned"
  /\ cleaned_again' = CleanMarkdown(cleaned)
  /\ cm_pc' = "recleaned"
  /\ UNCHANGED <<content, cleaned, rtVars, vcVars, batchVars>>

NextClean == Clean \/ CleanAgain

SpecClean == InitClean /\ [][NextClean]_vars

\* ------------------------------------------------------------------------
\* The GUI: the rule set, the document list, and process_files driving
\* ConRed.process_documents over the list.  The handlers run one at a time
\* on the Tk thread; a message box stays open until it is closed, and the
\* one process_files ends with is closed before it returns.  The three text
\* boxes (documents, rules, output) only display and are left out; a pair of
\* paths in document_pairs is held as the document the paths name.

MaxDocs == 2

\* dict[k] = v: a key already there keeps its place.
DictSet(items, k, v) ==
  IF \E i \in 1..Len(items) : items[i][1] = k
  THEN [i \in 1..Len(items) |-> IF items[i][1] = k THEN <<k, v>> ELSE items[i]]
  ELSE Append(items, <<k, v>>)

RECURSIVE UpdateFrom(_, _, _)
\* dict.update over the elements from the i-th on: an element that is not a
\* pair raises, and what was set before it stays set.
UpdateFrom(items, elems, i) ==
  IF i > Len(elems) THEN [items |-> items, raised |-> FALSE]
  ELSE IF Len(elems[i]) # 2 THEN [items |-> items, raised |-> TRUE]
  ELSE UpdateFrom(DictSet(items, elems[i][1], elems[i][2]), elems, i + 1)

\* dict.update(value) on the dict with these items.
DictUpdate(items, value) ==
  IF value.type \in {"dict", "list"}
  THEN UpdateFrom(items, value.items, 1)
  ELSE [items |-> items, raised |-> TRUE]

\* bool(value)
Truthy(value) ==
  CASE value.type \in {"dict", "list"} -> value.items # <<>>
    [] value.type = "NoneType" -> FALSE
    [] OTHER -> TRUE

\* A file whose content json.load cannot parse.
Malformed == Json("malformed", <<>>)

\* The rule files of the model, each as what json.load makes of it:
\* unparsable, {}, {"a": "x"}, {"": "x"}, [["b", "x"]], [["b", "x"], []],
\* 3 and null.
RuleFiles ==
  { Malformed,
    Dict(<<>>),
    Dict(<< <<<<"a">>, <<"x">>>> >>),
    Dict(<< <<<<>>, <<"x">>>> >>),
    Json("list", << <<<<"b">>, <<"x">>>> >>),
    Json("list", << <<<<"b">>, <<"x">>>>, <<>> >>),
    Json("int", <<>>),
    Json("NoneType", <<>>) }

\* self.default_config, cut down to one rule.
default_config == Dict(<< <<<<"a">>, <<"b">>>> >>)

\* What the two entry fields of a rule can hold.
SearchEntries == {<<" ">>, <<"a">>, <<" ", "b", " ">>}
ReplaceEntries == {<<>>, <<" ", "x">>}

\* A document on disk: whether python-docx opens it and the texts of its
\* runs, whether the .xml beside it exists, can be read, and its content,
\* whether mammoth converts it and the markdown it gives.
Doc(word_ok, runs, has_xml, xml_ok, xml, md_ok, markdown) ==
  [word_ok |-> word_ok, runs |-> runs, has_xml |-> has_xml, xml_ok |-> xml_ok,
   xml |-> xml, md_ok |-> md_ok, markdown |-> markdown]

Documents ==
  { Doc(TRUE, << <<"a">> >>, TRUE, TRUE, <<"a">>, TRUE, <<"a">>),
    Doc(TRUE, << <<"a">>, <<>>, <<"a", " ", "b">> >>, TRUE, TRUE, <<"a">>, TRUE,
        <<"*", "*", "a", "*", "*", "\n", "\n", "\n", "b">>),
    Doc(FALSE, <<>>, TRUE, TRUE, <<"a">>, TRUE, <<"a">>),
    Doc(TRUE, << <<"a">> >>, TRUE, FALSE, <<>>, TRUE, <<"a">>),
    Doc(TRUE, << <<"a">> >>, TRUE, TRUE, <<"a">>, FALSE, <<>>),
    Doc(TRUE, << <<"a">> >>, FALSE, FALSE, <<>>, TRUE, <<"a">>),
    Doc(TRUE, << <<"a">> >>, FALSE, FALSE, <<>>, FALSE, <<>>) }

\* replace_text under a replacement_dict of any type: .items() raises on
\* what is not a dict.
ReplaceWith(rd, t) ==
  IF rd.type = "dict" THEN ReplaceText(rd.items, t)
  ELSE [StartState(t) EXCEPT !.raised = TRUE]

\* Counter.update(counts)
CounterUpdate(counter, more) ==
  [k \in DOMAIN counter \cup DOMAIN more |-> Get(counter, k) + Get(more, k)]

RECURSIVE RunsFrom(_, _, _, _)
\* The loops of process_word_document over the runs from the i-th on;
\* acc = [runs, counts, raised].
RunsFrom(rd, runs, i, acc) ==
  IF i > Len(runs) THEN acc
  ELSE IF runs[i] = <<>>
  THEN RunsFrom(rd, runs, i + 1, [acc EXCEPT !.runs = Append(@, runs[i])])
  ELSE LET r == ReplaceWith(rd, runs[i])
       IN IF r.raised THEN [acc EXCEPT !.raised = TRUE]
          ELSE RunsFrom(rd, runs, i + 1,
                        [runs |-> Append(acc.runs, r.text),
                         counts |-> CounterUpdate(acc.counts, r.counts),
                         raised |-> FALSE])

\* process_word_document on an opened document: Counter(), then the runs.
ProcessRuns(rd, runs) ==
  RunsFrom(rd, runs, 1, [runs |-> <<>>, counts |-> <<>>, raised |-> FALSE])

\* ConRedGUI.__init__: the rule set is what default_config.json holds when
\* it is there and parses, and default_config otherwise.
InitGui ==
  /\ text = NoText
  /\ modified_text = NoText
  /\ counts = <<>>
  /\ found = <<>>
  /\ rt_pc = "ready"
  /\ result = NoResult
  /\ second = NoSecond
  /\ inserted = <<>>
  /\ rematched = FALSE
  /\ insertions = {}
  /\ replacement_dict = Dict(<<>>)
  /\ VerifyIdle
  /\ CleanIdle
  /\ replacements \in {default_config} \cup (RuleFiles \ {Malformed})
  /\ document_pairs = <<>>
  /\ status_label = "Ready"
  /\ dialog = "none"
  /\ pf_pc = "idle"
  /\ cur = 0
  /\ processed = 0
  /\ md_replacement_counts = <<>>
  /\ PdIdle
  /\ results = NoResults
  /\ written = <<>>
  /\ lc_pc = "ready"

\* No handler is running and no message box is open.
GuiReady == pf_pc = "idle" /\ dialog = "none"

\* add_replacement_rule with these texts in the two entries.  On a rule set
\* that is no dict the assignment raises out of the handler.
AddRule(search_entry, replace_entry) ==
  LET search == Strip(search_entry)
      replace == Strip(replace_entry)
  IN /\ GuiReady
     /\ IF search = <<>> \/ replace = <<>>
        THEN /\ dialog' = "Both search and replace terms are required"
             /\ UNCHANGED <<replacements, status_label>>
        ELSE IF replacements.type # "dict"
        THEN /\ dialog' = "none"
             /\ UNCHANGED <<replacements, status_label>>
        ELSE /\ replacements' = Dict(DictSet(replacements.items, search, replace))
             /\ status_label' = "Added rule"
             /\ dialog' = "none"
     /\ UNCHANGED <<document_pairs, pf_pc, cur, processed, pdVars, callVars>>

\* load_rules with this file picked.
LoadRules(file) ==
  LET upd == DictUpdate(replacements.items, file)
  IN /\ GuiReady
     /\ IF file = Malformed \/ replacements.type # "dict"
        THEN /\ dialog' = "Failed to load rules"
             /\ UNCHANGED <<replacements, status_label>>
        ELSE /\ replacements' = Dict(upd.items)
             /\ IF upd.raised
                THEN /\ dialog' = "Failed to load rules"
                     /\ UNCHANGED status_label
                ELSE /\ dialog' = "none"
                     /\ status_label' = "Loaded rules"
     /\ UNCHANGED <<document_pairs, pf_pc, cur, processed, pdVars,
                    callVars>>

\* The message box of a handler that has returned is closed.
CloseDialog ==
  /\ pf_pc = "idle"
  /\ dialog # "none"
  /\ dialog' = "none"
  /\ UNCHANGED <<replacements, document_pairs, status_label, pf_pc, cur,
                 processed, pdVars, callVars>>

\* add_document_pair with these files picked.
AddDocuments(docs) ==
  /\ GuiReady
  /\ docs # <<>>
  /\ Len(document_pairs) + Len(docs) <= MaxDocs
  /\ document_pairs' = document_pairs \o docs
  /\ dialog' = IF Truthy(replacements) /\ \E i \in 1..Len(docs) : ~docs[i].has_xml
               THEN "No XML file found" ELSE "none"
  /\ status_label' = "Added document(s)"
  /\ UNCHANGED <<replacements, pf_pc, cur, processed, pdVars, callVars>>

\* clear_documents
ClearDocuments ==
  /\ GuiReady
  /\ document_pairs' = <<>>
  /\ status_label' = "All documents cleared"
  /\ dialog' = "none"
  /\ UNCHANGED <<replacements, pf_pc, cur, processed, pdVars, callVars>>

\* process_files up to its loop: the two early returns, else a new ConRed
\* with the rule set of the GUI.
PfStart ==
  /\ GuiReady
  /\ IF document_pairs = <<>>
     THEN /\ dialog' = "No documents to process"
          /\ UNCHANGED <<pf_pc, cur, processed, pdVars>>
     ELSE IF (\E i \in 1..Len(document_pairs) : document_pairs[i].has_xml)
             /\ ~Truthy(replacements)
     THEN /\ dialog' = "No replacement rules defined for redaction"
          /\ UNCHANGED <<pf_pc, cur, processed, pdVars>>
     ELSE /\ dialog' = "none"
          /\ replacement_dict' = replacements
          /\ replacement_counts' = NewCounts
          /\ md_replacement_counts' = <<>>
          /\ processed' = 0
          /\ cur' = 1
          /\ pf_pc' = "loop"
          /\ written' = <<>>
          /\ UNCHANGED <<mismatches, pd_pc, modified_doc, modified_xml,
                         markdown_content, modified_markdown, results>>
  /\ UNCHANGED <<replacements, document_pairs, status_label, callVars>>

\* The except of the loop: the error box, and process_files returns once it
\* is closed.
Except ==
  /\ dialog' = "Error processing"
  /\ pf_pc' = "showerror"
  /\ pd_pc' = "none"
  /\ UNCHANGED <<replacements, document_pairs, status_label, cur,
                 processed, replacement_dict, mismatches, results, written, callVars>>

\* PfPair, had process_documents begun with saving the outputs.
PfPairSaveFirst ==
  /\ pf_pc = "loop"
  /\ cur <= Len(document_pairs)
  /\ document_pairs[cur].has_xml
  /\ status_label' = "Processing"
  /\ pf_pc' = "pair"
  /\ pd_pc' = "save"
  /\ modified_doc' = <<>>
  /\ modified_xml' = NoText
  /\ markdown_content' = NoText
  /\ modified_markdown' = NoText
  /\ UNCHANGED <<replacements, document_pairs, dialog, cur,
                 processed, replacement_dict, replacement_counts,
                 md_replacement_counts, mismatches, results, written, callVars>>

\* The loop takes a document that has an .xml: process_documents is entered.
PfPair ==
  /\ pf_pc = "loop"
  /\ cur <= Len(document_pairs)
  /\ document_pairs[cur].has_xml
  /\ status_label' = "Processing"
  /\ pf_pc' = "pair"
  /\ pd_pc' = "word"
  /\ modified_doc' = <<>>
  /\ modified_xml' = NoText
  /\ markdown_content' = NoText
  /\ modified_markdown' = NoText
  /\ UNCHANGED <<replacements, document_pairs, dialog, cur,
                 processed, replacement_dict, replacement_counts,
                 md_replacement_counts, mismatches, results, written, callVars>>

\* modified_doc = self.process_word_document(word_input)
PdWord ==
  /\ pd_pc = "word"
  /\ LET doc == document_pairs[cur]
         r == ProcessRuns(replacement_dict, doc.runs)
     IN IF ~doc.word_ok
        THEN /\ Except
             /\ UNCHANGED <<replacement_counts, modified_doc>>
        ELSE IF r.raised
        THEN /\ Except
             /\ replacement_counts' = [replacement_counts EXCEPT !.word = r.counts]
             /\ UNCHANGED modified_doc
        ELSE /\ replacement_counts' = [replacement_counts EXCEPT !.word = r.counts]
             /\ modified_doc' = r.runs
             /\ pd_pc' = "xml"
             /\ UNCHANGED <<replacements, document_pairs, status_label, dialog,
                            pf_pc, cur, processed, replacement_dict,
                            mismatches, results, written, callVars>>
  /\ UNCHANGED <<md_replacement_counts, modified_xml, markdown_content,
                 modified_markdown>>

\* modified_xml = self.process_xml_document(xml_input)
PdXml ==
  /\ pd_pc = "xml"
  /\ LET doc == document_pairs[cur]
         r == ReplaceWith(replacement_dict, doc.xml)
     IN IF ~doc.xml_ok
        THEN /\ Except
             /\ UNCHANGED <<replacement_counts, modified_xml>>
        ELSE IF r.raised
        THEN /\ Except
             /\ replacement_counts' = [replacement_counts EXCEPT !.xml = <<>>]
             /\ UNCHANGED modified_xml
        ELSE /\ replacement_counts' =
                  [replacement_counts EXCEPT !.xml = CounterUpdate(<<>>, r.counts)]
             /\ modified_xml' = r.text
             /\ pd_pc' = "convert"
             /\ UNCHANGED <<replacements, document_pairs, status_label, dialog,
                            pf_pc, cur, processed, replacement_dict,
                            mismatches, results, written, callVars>>
  /\ UNCHANGED <<md_replacement_counts, modified_doc, markdown_content,
                 modified_markdown>>

\* markdown_content = self.markdown_converter.convert_docx_to_markdown(word_input)
PdConvert ==
  /\ pd_pc = "convert"
  /\ IF ~document_pairs[cur].md_ok
     THEN /\ Except
          /\ UNCHANGED markdown_content
     ELSE /\ markdown_content' = document_pairs[cur].markdown
          /\ pd_pc' = "markdown"
          /\ UNCHANGED <<replacements, document_pairs, status_label, dialog,
                         pf_pc, cur, processed, replacement_dict,
                         mismatches, results, written, callVars>>
  /\ UNCHANGED <<replacement_counts, md_replacement_counts, modified_doc,
                 modified_xml, modified_markdown>>

\* process_markdown, and its counter put under 'markdown' (line 203).
PdMarkdown ==
  /\ pd_pc = "markdown"
  /\ LET r == ReplaceWith(replacement_dict, CleanMarkdown(markdown_content))
         total == CounterUpdate(md_replacement_counts, r.counts)
     IN IF r.raised
        THEN /\ Except
             /\ UNCHANGED <<replacement_counts, md_replacement_counts,
                            modified_markdown>>
        ELSE /\ md_replacement_counts' = total
             /\ replacement_counts' = [replacement_counts EXCEPT !.markdown = total]
             /\ modified_markdown' = r.text
             /\ pd_pc' = "save"
             /\ UNCHANGED <<replacements, document_pairs, status_label, dialog,
                            pf_pc, cur, processed, replacement_dict,
                            mismatches, results, written, callVars>>
  /\ UNCHANGED <<modified_doc, modified_xml, markdown_content>>

\* The three outputs are written.
PdSave ==
  /\ pd_pc = "save"
  /\ written' = written \o <<[doc |-> cur, kind |-> "docx"],
                             [doc |-> cur, kind |-> "xml"],
                             [doc |-> cur, kind |-> "md"]>>
  /\ pd_pc' = "verify"
  /\ UNCHANGED <<replacements, document_pairs, status_label, dialog, pf_pc, cur, processed, replacement_dict, replacement_counts,
                 md_replacement_counts, mismatches, modified_doc, modified_xml,
                 markdown_content, modified_markdown, results, callVars>>

\* mismatches = self.verify_counts()
PdVerify ==
  /\ pd_pc = "verify"
  /\ \E order \in Orders(AllWords(replacement_counts)) :
       mismatches' = VerifyCounts(replacement_counts, order)
  /\ pd_pc' = "return"
  /\ UNCHANGED <<replacements, document_pairs, status_label, dialog, pf_pc, cur, processed, replacement_dict, replacement_counts,
                 md_replacement_counts, modified_doc, modified_xml,
                 markdown_content, modified_markdown, results, written, callVars>>

\* process_documents returns its results; the loop lists them, counts the
\* document and goes on.
PdReturn ==
  /\ pd_pc = "return"
  /\ results' = [returned |-> TRUE,
                 mismatches |-> mismatches,
                 word_counts |-> replacement_counts.word,
                 xml_counts |-> replacement_counts.xml,
                 markdown_counts |-> replacement_counts.markdown]
  /\ processed' = processed + 1
  /\ status_label' = "Processed documents"
  /\ cur' = cur + 1
  /\ pf_pc' = "loop"
  /\ pd_pc' = "none"
  /\ UNCHANGED <<replacements, document_pairs, dialog, replacement_dict,
                 replacement_counts, md_replacement_counts, mismatches,
                 modified_doc, modified_xml, markdown_content, modified_markdown,
                 written, callVars>>

\* The loop takes a document without an .xml: conversion only, with an
\* except of its own.
PfMarkdownOnly ==
  /\ pf_pc = "loop"
  /\ cur <= Len(document_pairs)
  /\ ~document_pairs[cur].has_xml
  /\ written' = IF document_pairs[cur].md_ok
                THEN Append(written, [doc |-> cur, kind |-> "md"])
                ELSE written
  /\ processed' = processed + 1
  /\ status_label' = "Processed documents"
  /\ cur' = cur + 1
  /\ UNCHANGED <<replacements, document_pairs, dialog, pf_pc, replacement_dict,
                 replacement_counts, md_replacement_counts, mismatches, pd_pc,
                 modified_doc, modified_xml, markdown_content, modified_markdown,
                 results, callVars>>

\* After the loop: the status and the success box.
PfEnd ==
  /\ pf_pc = "loop"
  /\ cur > Len(document_pairs)
  /\ status_label' = "Processing complete!"
  /\ dialog' = "All documents processed successfully!"
  /\ pf_pc' = "showinfo"
  /\ UNCHANGED <<replacements, document_pairs, cur, processed,
                 pdVars, callVars>>

\* The box is closed and process_files returns: its locals, the processor
\* among them, are gone.
PfReturn ==
  /\ pf_pc \in {"showerror", "showinfo"}
  /\ pf_pc' = "idle"
  /\ dialog' = "none"
  /\ cur' = 0
  /\ processed' = 0
  /\ replacement_dict' = Dict(<<>>)
  /\ replacement_counts' = NewCounts
  /\ md_replacement_counts' = <<>>
  /\ mismatches' = <<>>
  /\ results' = NoResults
  /\ written' = <<>>
  /\ modified_doc' = <<>>
  /\ modified_xml' = NoText
  /\ markdown_content' = NoText
  /\ modified_markdown' = NoText
  /\ UNCHANGED <<replacements, document_pairs, status_label, pd_pc, callVars>>

NextGui ==
  \/ \E s \in SearchEntries, r \in ReplaceEntries : AddRule(s, r)
  \/ \E file \in RuleFiles : LoadRules(file)
  \/ \E docs \in SeqsUpTo(Documents, MaxDocs) : AddDocuments(docs)
  \/ ClearDocuments
  \/ CloseDialog
  \/ PfStart
  \/ PfPair
  \/ PdWord
  \/ PdXml
  \/ PdConvert
  \/ PdMarkdown
  \/ PdSave
  \/ PdVerify
  \/ PdReturn
  \/ PfMarkdownOnly
  \/ PfEnd
  \/ PfReturn

SpecGui == InitGui /\ [][NextGui]_vars

\* ------------------------------------------------------------------------
\* Rule files loaded: by load_rules into the rule set of the GUI, and by
\* load_config into a ConRed.

\* json.load gave a dict.
IsObject(file) == file.type = "dict"

\* The rule sets a load can find in place.
LoadedSets == {default_config} \cup (RuleFiles \ {Malformed})

InitLoad ==
  /\ text = NoText
  /\ modified_text = NoText
  /\ counts = <<>>
  /\ found = <<>>
  /\ rt_pc = "ready"
  /\ result = NoResult
  /\ second = NoSecond
  /\ inserted = <<>>
  /\ rematched = FALSE
  /\ insertions = {}
  /\ VerifyIdle
  /\ CleanIdle
  /\ replacements \in LoadedSets
  /\ replacement_dict \in {d \in LoadedSets : IsObject(d)}
  /\ document_pairs = <<>>
  /\ status_label = "Ready"
  /\ dialog = "none"
  /\ pf_pc = "idle"
  /\ cur = 0
  /\ processed = 0
  /\ md_replacement_counts = <<>>
  /\ PdIdle
  /\ results = NoResults
  /\ written = <<>>
  /\ lc_pc = "ready"

\* ConRed.load_config with this file: what json.load gives becomes the
\* replacement_dict; an exception is logged and raised again.
LoadConfig(file) ==
  /\ IF file = Malformed
     THEN /\ lc_pc' = "raised"
          /\ UNCHANGED replacement_dict
     ELSE /\ lc_pc' = "returned"
          /\ replacement_dict' = file
  /\ UNCHANGED <<guiVars, replacement_counts, md_replacement_counts, mismatches,
                 pd_pc, modified_doc, modified_xml, markdown_content,
                 modified_markdown, results, written, text, modified_text,
                 counts, found, rt_pc, result, second, inserted, rematched,
                 insertions, vc_pc, cmVars>>

NextLoad ==
  \/ \E file \in RuleFiles : LoadRules(file)
  \/ \E file \in RuleFiles : LoadConfig(file)
  \/ CloseDialog

SpecLoad == InitLoad /\ [][NextLoad]_vars

\* ------------------------------------------------------------------------
\* The statements checked.

\* The entries of mismatches for word.
EntriesFor(word) == {i \in 1..Len(mismatches) : mismatches[i].word = word}

\* C1: verify_counts reports a term if and only if its word, xml and markdown
\* counts (0 where the term was never seen) are not all equal: one entry with
\* the three counts for every such term of the union of the terms seen, and
\* none for any other term.
C1_MismatchIffCountsDiffer ==
  vc_pc = "returned" =>
    /\ \A i \in 1..Len(mismatches) : mismatches[i].word \in AllWords(replacement_counts)
    /\ \A w \in AllWords(replacement_counts) :
         LET wc == Get(replacement_counts.word, w)
             xc == Get(replacement_counts.xml, w)
             mc == Get(replacement_counts.markdown, w)
         IN IF wc = xc /\ xc = mc
            THEN EntriesFor(w) = {}
            ELSE /\ Cardinality(EntriesFor(w)) = 1
                 /\ \A i \in EntriesFor(w) :
                      /\ mismatches[i].word_doc_count = wc
                      /\ mismatches[i].xml_doc_count = xc
                      /\ mismatches[i].markdown_doc_count = mc

\* C1 witness: verify_counts has returned an entry for a term that the
\* markdown never saw, and none for a term whose counts agree.
C1_Witness ==
  /\ vc_pc = "returned"
  /\ \E w \in AllWords(replacement_counts) :
       w \notin DOMAIN replacement_counts.markdown /\ EntriesFor(w) # {}
  /\ \E w \in AllWords(replacement_counts) : EntriesFor(w) = {}

\* The turns of the loops that belong to rule r, and turn j of them.
TurnOf(r, j) == NumPatterns * (r - 1) + j

\* The counts replace_text finds in the three representations of one
\* document, taken by itself.
CountsOf(rd, doc) ==
  [word |-> ProcessRuns(rd, doc.runs).counts,
   xml |-> CounterUpdate(<<>>, ReplaceWith(rd, doc.xml).counts),
   markdown |-> CounterUpdate(<<>>, ReplaceWith(rd, CleanMarkdown(doc.markdown)).counts)]

\* C2: the word, xml and markdown counts that verify_counts is run on for a
\* document hold the matches found in that document only, none carried over
\* from a document processed before it.
C2_CountsOfThisDocument ==
  pd_pc = "verify" =>
    replacement_counts = CountsOf(replacement_dict, document_pairs[cur])

\* C3: an error on one document does not abort the batch: when process_files
\* is about to return, its loop has taken every document of the list.
C3_BatchNotAborted ==
  pf_pc \in {"showerror", "showinfo"} => cur >= Len(document_pairs)

\* C4: within one replace_text call no character written by a substitution
\* is part of a match of a later pattern of the same rule or of a later rule.
C4_NoCascade == ~rematched

\* C5: every match is replaced by exactly the configured replacement string,
\* whatever the text matched.
C5_Verbatim ==
  (rt_pc = "loop" /\ Len(found) >= 1) =>
    \A x \in insertions : x = RuleOf(replacement_dict.items, Len(found))[2]

\* No replacement of the rule set equals its search term.
NoIdentityRule(rules) == \A i \in 1..Len(rules) : rules[i][2] # rules[i][1]

\* The plain pattern (pattern 1) of every rule found nothing in run st.
PlainFindsNone(st) ==
  \A n \in 1..Len(st.found) : PatternOf(n) = 1 => st.found[n] = 0

\* C6, as stated: when no replacement equals its term, a second replace_text
\* on the output of the first finds no match of pattern 1 of any term.
C6_RerunFindsNone ==
  (rt_pc = "rerun" /\ NoIdentityRule(replacement_dict.items)) =>
    (~second.raised /\ PlainFindsNone(second))

\* The characters of s, case folded.
FoldedChars(s) == {Fold(s[i]) : i \in 1..Len(s)}

\* A single rule whose term is not empty and holds none of & < >, and whose
\* replacement is not empty, holds no backslash and shares no character with
\* the term, case ignored.
DisjointSingleRule(rules) ==
  /\ Len(rules) = 1
  /\ rules[1][1] # <<>>
  /\ rules[1][2] # <<>>
  /\ FoldedChars(rules[1][1]) \cap {"&", "<", ">"} = {}
  /\ "\\" \notin FoldedChars(rules[1][2])
  /\ FoldedChars(rules[1][1]) \cap FoldedChars(rules[1][2]) = {}

\* C6, amended: for a rule set of one such rule, a second replace_text on the
\* output of the first finds no match of pattern 1 of the term.
C6_RerunFindsNoneSingleRule ==
  (rt_pc = "rerun" /\ DisjointSingleRule(replacement_dict.items)) =>
    (~second.raised /\ PlainFindsNone(second))

\* C6 witness: such a rule has been run again, after a first run in which a
\* substitution after a list marker laid bare a further occurrence, which
\* pattern 8 then replaced.
C6_Witness ==
  /\ rt_pc = "rerun"
  /\ DisjointSingleRule(replacement_dict.items)
  /\ found[TurnOf(1, 5)] > 0
  /\ found[TurnOf(1, 8)] > 0

\* C7: a text with N standalone occurrences of a term and none in a markdown
\* context gives counts[term] = N, all N found by pattern 1 and none by
\* patterns 2 to 8.
C7_PlainPatternCountsAll ==
  rt_pc = "returned" =>
    \A r \in 1..Len(replacement_dict.items) :
      LET term == replacement_dict.items[r][1]
          N == MatchCount(term, 1, text)
      IN (\A j \in 3..7 : MatchCount(term, j, text) = 0) =>
           /\ result.counts[term] = N
           /\ found[TurnOf(r, 1)] = N
           /\ \A j \in 2..NumPatterns : found[TurnOf(r, j)] = 0

\* C8: clean_markdown is idempotent: clean_markdown(clean_markdown(x)) is
\* clean_markdown(x) for every markdown x.
C8_CleanIdempotent == cm_pc = "recleaned" => cleaned_again = cleaned

\* C9: a load of a file that is malformed or whose top level is no object
\* leaves the rule set as it was, in load_rules and in load_config.
C9_LoadFailsClosed ==
  [][\A file \in RuleFiles :
       ~IsObject(file) =>
         /\ LoadRules(file) => replacements' = replacements
         /\ LoadConfig(file) => replacement_dict' = replacement_dict]_vars

\* C10: with an empty rule set replace_text returns its input unchanged and
\* an empty count mapping.
C10_EmptyRuleSet ==
  (rt_pc = "returned" /\ replacement_dict = Dict(<<>>)) =>
    (result.text = text /\ DOMAIN result.counts = {})

\* C10 witness: replace_text has returned for an empty rule set and a text
\* that is not empty.
C10_Witness ==
  rt_pc = "returned" /\ replacement_dict = Dict(<<>>) /\ text # <<>>

\* C11 as stated: under {Acme: Vendor1} the sentence 'Acme supports acme and
\* ACME.' gives count 3, all from pattern 1, and the markdown sentence
\* 'We use **Acme** daily.' gives count 3, from pattern 1 plus the emphasis
\* pattern (pattern 4).
C11_AcmeCountsThreeEach ==
  (rt_pc = "returned" /\ replacement_dict = Dict(AcmeRules)) =>
    /\ text = AcmeNativeSpan =>
         (result.counts = (AcmeRules[1][1] :> 3) /\ found[1] = 3)
    /\ text = AcmeMarkdownSpan =>
         (result.counts = (AcmeRules[1][1] :> 3) /\ found[1] + found[4] = 3)

\* C11 amended: the plain sentence gives count 3, all from pattern 1; the
\* markdown sentence gives count 1, from pattern 1 alone: the emphasis
\* pattern runs after pattern 1 has replaced the term and finds nothing.
C11_AcmeCounts ==
  (rt_pc = "returned" /\ replacement_dict = Dict(AcmeRules)) =>
    /\ text = AcmeNativeSpan =>
         /\ result.counts = (AcmeRules[1][1] :> 3)
         /\ found = <<3, 0, 0, 0, 0, 0, 0, 0>>
    /\ text = AcmeMarkdownSpan =>
         /\ result.counts = (AcmeRules[1][1] :> 1)
         /\ found = <<1, 0, 0, 0, 0, 0, 0, 0>>

\* C11 witness: replace_text has returned for the markdown sentence, with the
\* term inside the emphasis markers replaced.
C11_Witness ==
  /\ rt_pc = "returned"
  /\ replacement_dict = Dict(AcmeRules)
  /\ text = AcmeMarkdownSpan
  /\ result.text # text
  /\ Len(found) = NumPatterns

\* The places of term among the pairs of a rule set or of a loaded value.
EntriesOf(rs, term) ==
  {i \in 1..Len(rs.items) : Len(rs.items[i]) = 2 /\ rs.items[i][1] = term}

\* The terms a rule set or a loaded value holds a pair for.
TermsOf(rs) ==
  {rs.items[i][1] : i \in {j \in 1..Len(rs.items) : Len(rs.items[j]) = 2}}

\* The rule set holds term exactly once, mapped to replacement.
MapsTo(rs, term, replacement) ==
  /\ rs.type = "dict"
  /\ Cardinality(EntriesOf(rs, term)) = 1
  /\ \A i \in EntriesOf(rs, term) : rs.items[i][2] = replacement

\* Outside of the terms supplied, rule set after holds what before held.
OthersKept(before, after, supplied) ==
  \A term \in (TermsOf(before) \cup TermsOf(after)) \ supplied :
    /\ Cardinality(EntriesOf(before, term)) = Cardinality(EntriesOf(after, term))
    /\ {before.items[i] : i \in EntriesOf(before, term)}
         = {after.items[i] : i \in EntriesOf(after, term)}

\* The replacement a loaded value gives for term: that of its last pair.
LastGiven(file, term) ==
  file.items[CHOOSE i \in EntriesOf(file, term) :
               \A j \in EntriesOf(file, term) : j <= i][2]

FoldStep(st, rule, j) ==
  LET spans == Matches(rule[1], j, st.text)
  IN [text |-> Sub(st.text, spans, Insertions(st.text, spans, rule[2])),
      counts |-> CounterAdd(st.counts, rule[1], Len(spans)),
      found |-> Append(st.found, Len(spans))]

RECURSIVE FoldPatterns(_, _, _)
\* The patterns from the j-th on, in their order, for one rule.
FoldPatterns(st, rule, j) ==
  IF j > NumPatterns THEN st ELSE FoldPatterns(FoldStep(st, rule, j), rule, j + 1)

RECURSIVE LeftFold(_, _, _)
\* The rules from the r-th on, in the order of the rule set.
LeftFold(st, rules, r) ==
  IF r > Len(rules) THEN st
  ELSE LeftFold(FoldPatterns(st, rules[r], 1), rules, r + 1)

RECURSIVE SumOf(_, _, _)
\* seq[from] + ... + seq[to]
SumOf(seq, from, to) ==
  IF from > to THEN 0 ELSE seq[from] + SumOf(seq, from + 1, to)

\* Spans a and b share a character.
Overlap(a, b) == a[1] < b[2] /\ b[1] < a[2]

\* C13: what replace_text returns is the left fold over the (rule, pattern)
\* pairs, rules in the order of the rule set and patterns in their order,
\* each step counting and substituting the matches in the text as the
\* earlier steps left it; the first rule gets every occurrence it matches
\* in the text given, and the count of each term is the number of
\* substitutions made in the turns of its rule.
C13_LeftFold ==
  rt_pc = "returned" =>
    LET rules == replacement_dict.items
        fold == LeftFold([text |-> text, counts |-> <<>>, found |-> <<>>], rules, 1)
    IN /\ result.text = fold.text
       /\ result.counts = fold.counts
       /\ found = fold.found
       /\ rules # <<>> => found[1] = Len(Matches(rules[1][1], 1, text))
       /\ \A r \in 1..Len(rules) :
            result.counts[rules[r][1]] =
              SumOf(found, NumPatterns * (r - 1) + 1, NumPatterns * r)

\* C13 witness: replace_text has returned for two rules whose plain patterns
\* both match one occurrence of the text given; the first rule has counted
\* it and the second has counted nothing.
C13_Witness ==
  /\ rt_pc = "returned"
  /\ Len(replacement_dict.items) = 2
  /\ LET rules == replacement_dict.items
         first == Matches(rules[1][1], 1, text)
         second_ == Matches(rules[2][1], 1, text)
     IN /\ \E i \in 1..Len(first), k \in 1..Len(second_) :
             Overlap(first[i], second_[k])
        /\ result.counts[rules[1][1]] > 0
        /\ result.counts[rules[2][1]] = 0

\* C14: for every term, with "." or "-" in it or not, pattern 2 matches
\* exactly what pattern 1 matches, in the text given to replace_text and in
\* the text as every turn of the loops leaves it.
C14_Pattern2SameAsPattern1 ==
  rt_pc \in {"loop", "returned"} =>
    \A r \in 1..Len(replacement_dict.items) :
      LET term == replacement_dict.items[r][1]
      IN /\ Matches(term, 2, text) = Matches(term, 1, text)
         /\ Matches(term, 2, modified_text) = Matches(term, 1, modified_text)

\* No entry of the rule set has the empty string as its term.
NoEmptyTerm(rs) ==
  \A i \in 1..Len(rs.items) : rs.items[i] # <<>> => rs.items[i][1] # <<>>

\* C15: in every state the GUI reaches through the startup configuration,
\* add-rule and load-rules the rule set holds no empty term, so the rule set
\* process_files hands to the processor holds none; and an add-rule that is
\* rejected leaves the rule set as it was.
C15_NoEmptyTerm ==
  /\ [](/\ NoEmptyTerm(replacements)
        /\ pf_pc # "idle" => NoEmptyTerm(replacement_dict))
  /\ [][\A s \in SearchEntries, r \in ReplaceEntries :
          (AddRule(s, r) /\ (Strip(s) = <<>> \/ Strip(r) = <<>>)) =>
            replacements' = replacements]_vars

\* markdown holds n blank lines in a row: n + 1 line ends with nothing between.
BlankRun(markdown, n) ==
  \E i \in 1..(Len(markdown) - n) : \A k \in 0..n : markdown[i + k] = "\n"

\* C16: what clean_markdown returns holds no three blank lines in a row,
\* whether the input held them or they arose from removing an image
\* reference or an empty emphasis.
C16_NoBlankRun ==
  cm_pc \in {"cleaned", "recleaned"} => ~BlankRun(cleaned, 3)

\* Nothing raises while this document is read and converted.
ReadsWithoutError(doc) ==
  /\ doc.md_ok
  /\ doc.has_xml => (doc.word_ok /\ doc.xml_ok)

\* C17: process_files shows 'Processing complete!' and the success box only
\* when reading and converting raised for no document of the list, and the
\* processed total counts no document for which it raised.
C17_SuccessOnlyWithoutError ==
  /\ (pf_pc = "showinfo" /\ dialog = "All documents processed successfully!") =>
       /\ status_label = "Processing complete!"
       /\ \A i \in 1..Len(document_pairs) : ReadsWithoutError(document_pairs[i])
  /\ pf_pc \in {"loop", "pair", "showinfo", "showerror"} =>
       processed <= Cardinality({i \in 1..(cur - 1) :
                                  ReadsWithoutError(document_pairs[i])})

\* The word, xml and markdown representations of the pair in hand have all
\* been processed.
AllThreeProcessed ==
  /\ modified_doc # <<>>
  /\ modified_xml # NoText
  /\ modified_markdown # NoText

\* An output file of the n-th document of the list has been written.
WrittenFor(n) == \E k \in 1..Len(written) : written[k].doc = n

\* C18: while process_documents works on a pair, an output file of the pair
\* exists only once its three representations have all been processed; when
\* a step has raised, no output file of the pair has been written; and
\* verify_counts has run only after all three were processed.
C18_WriteAfterAllProcessed ==
  /\ (pf_pc = "pair" /\ WrittenFor(cur)) => AllThreeProcessed
  /\ pf_pc = "showerror" => ~WrittenFor(cur)
  /\ pd_pc = "return" => (AllThreeProcessed /\ WrittenFor(cur))

\* C18 witness: the first pair of the list has been processed and written,
\* and converting the second to markdown has raised after its word and xml
\* documents were processed.
C18_Witness ==
  /\ pf_pc = "showerror"
  /\ cur = 2
  /\ WrittenFor(1)
  /\ ~document_pairs[2].md_ok
  /\ modified_doc # <<>>
  /\ modified_xml # NoText

====
